---- MODULE Spec2Model ----
(***************************************************************************)
(* ts::unique_ptr (ts_memory.h): an exclusive-ownership pointer whose      *)
(* operator-> and operator* hand out a proxy that keeps the container's    *)
(* mutex locked for one access expression, with lock()/unlock()/get() for  *)
(* multi-step critical sections and moves that take both mutexes through   *)
(* std::scoped_lock.                                                       *)
(*                                                                         *)
(* A state is the fields of every container (m_mtx, m_value and the        *)
(* deleter std::unique_ptr keeps inside m_value), the heap objects, and    *)
(* every thread's position inside the member function it is running.       *)
(* Every step is one atomic memory or mutex operation of the source.       *)
(***************************************************************************)
EXTENDS Integers, FiniteSets, Sequences, TLC

\* ---------------------------------------------------------------- bounds
\* threads sharing the containers
NThreads == 2
\* member-function calls of all threads together, in Spec
MaxOps == 2
\* rounds of every thread in the increment test and in the queue test
Rounds == 3
\* heap objects that can ever be allocated
MaxObj == 3
\* elements in the queue when the queue test starts
QueueLen == 1
\* calls of all threads together in the construction test
CtorOps == 4
\* proxy objects one access expression can have alive at a time
MaxGuards == 3
\* longest array make_unique<T[]>(n) is asked for
MaxLen == 2

\* ---------------------------------------------------------------- values
Null == 0
Threads    == 1..NThreads
Containers == {"A", "B", "C"}
Objects    == 1..MaxObj
Deleters   == {"default_delete", "custom"}
NoContainer == "none"
\* the values of an array element; the test stores Value(i) at index i
Values     == 1..MaxLen
Value(i)   == i + 1

VARIABLES
    life,      \* container -> "none" (no object), "ctor" (in its move constructor), "live"
    m_mtx,     \* container -> TRUE when the mutex is locked
    m_value,   \* container -> the pointer std::unique_ptr m_value holds
    deleter,   \* container -> the deleter stored in m_value
    heap,      \* object -> "free" (never allocated), "alive", "deleted"
    cleaned,   \* object -> number of times a deleter was invoked on it
    val,       \* object -> the integer the object holds (counter value / queue size)
    pc,        \* thread -> position
    self_,     \* thread -> the container whose member function it runs (this)
    other,     \* thread -> the argument of a move (other)
    first,     \* thread -> the mutex std::lock takes with a blocking lock()
    m_ptr,     \* thread -> the pointer captured for / held by its proxy
    proxy,     \* thread -> "none", "proxy_locker", "proxy_locker_for_subscript"
    ret,       \* thread -> the pointer the last get() returned
    reg,       \* thread -> the integer the thread last read from the managed object
    guards,    \* thread -> its live proxy objects, oldest first: TRUE when the proxy's
               \*           unique_lock owns the mutex
    index,     \* thread -> the index last given to the proxy's operator[]
    elems,     \* object -> for an array, index -> the values a read of the element can
               \*           give (every value while the element is not yet written)
    quota      \* thread -> member-function calls the thread still makes

vars == <<life, m_mtx, m_value, deleter, heap, cleaned, val,
          pc, self_, other, first, m_ptr, proxy, ret, reg, guards, index, elems, quota>>

cvars == <<life, m_mtx, m_value, deleter>>
hvars == <<heap, cleaned, val, elems>>
lvars == <<m_ptr, proxy, ret, reg, guards, index>>
tvars == <<self_, other, first, lvars>>

\* ------------------------------------------------------- std::mutex
\* std::mutex::lock(): returns only once the mutex is free, and takes it.
MutexLock(c) ==
    /\ ~m_mtx[c]
    /\ m_mtx' = [m_mtx EXCEPT ![c] = TRUE]

\* std::mutex::unlock()
MutexUnlock(c) ==
    m_mtx' = [m_mtx EXCEPT ![c] = FALSE]

\* ------------------------------------------------------- who holds what
\* The sequence s without its i-th element.
RemoveAt(s, i) == SubSeq(s, 1, i - 1) \o SubSeq(s, i + 1, Len(s))

\* One of the thread's proxies owns the mutex.
Owns(t) == \E i \in 1..Len(guards[t]) : guards[t][i]

\* The mutexes a thread has locked and not yet unlocked, from its position.
Holds(t, c) ==
    \/ pc[t] \in {"guarded", "inc_w", "used", "idx_wr", "idx_rd"} /\ self_[t] = c /\ Owns(t)
    \/ pc[t] \in {"locked", "got", "checked", "popped"} /\ self_[t] = c
    \/ pc[t] \in {"lk_relock", "px_relock"} /\ self_[t] = c
    \/ pc[t] = "sl_try" /\ first[t] = c
    \/ pc[t] \in {"mv_xfer", "mv_unlock1"} /\ c \in {self_[t], other[t]}
    \/ pc[t] = "mv_unlock2" /\ c = other[t]

Holders(c) == {t \in Threads : Holds(t, c)}

\* The thread is inside a member function of c, or has c as its argument.
Using(t, c) == pc[t] # "idle" /\ c \in {self_[t], other[t]}

\* operator new hands out an address that is not in use.
NewObject == CHOOSE o \in Objects : heap[o] = "free" /\ \A q \in Objects : heap[q] = "free" => o <= q

\* ------------------------------------------------------- Init
RECURSIVE Sum(_, _)
Sum(f, S) == IF S = {} THEN 0 ELSE LET x == CHOOSE y \in S : TRUE IN f[x] + Sum(f, S \ {x})

\* A and B were constructed from two distinct objects; C is not constructed yet.
\* The object of A holds n; thread t is about to make q[t] calls.
Start(n, q) ==
    /\ life    = [c \in Containers |-> IF c = "C" THEN "none" ELSE "live"]
    /\ m_mtx   = [c \in Containers |-> FALSE]
    /\ m_value = [c \in Containers |-> IF c = "A" THEN 1 ELSE IF c = "B" THEN 2 ELSE Null]
    /\ deleter = [c \in Containers |-> IF c = "B" THEN "custom" ELSE "default_delete"]
    /\ heap    = [o \in Objects |-> IF o \in {1, 2} THEN "alive" ELSE "free"]
    /\ cleaned = [o \in Objects |-> 0]
    /\ val     = [o \in Objects |-> IF o = 1 THEN n ELSE 0]
    /\ pc      = [t \in Threads |-> "idle"]
    /\ self_   = [t \in Threads |-> NoContainer]
    /\ other   = [t \in Threads |-> NoContainer]
    /\ first   = [t \in Threads |-> NoContainer]
    /\ m_ptr   = [t \in Threads |-> Null]
    /\ proxy   = [t \in Threads |-> "none"]
    /\ ret     = [t \in Threads |-> Null]
    /\ reg     = [t \in Threads |-> 0]
    /\ guards  = [t \in Threads |-> <<>>]
    /\ index   = [t \in Threads |-> 0]
    /\ elems   = [o \in Objects |-> <<>>]
    /\ quota   = q

\* The threads make MaxOps calls between them, split in any way (the threads
\* are interchangeable, so the split is listed with the larger shares first).
Init ==
    \E q \in [Threads -> 0..MaxOps] :
        /\ Sum(q, Threads) = MaxOps
        /\ \A t, u \in Threads : t < u => q[t] >= q[u]
        /\ Start(0, q)

\* A thread calls a member function of the constructed container c.
Call(t, c) ==
    /\ pc[t] = "idle"
    /\ quota[t] > 0
    /\ life[c] = "live"
    /\ quota' = [quota EXCEPT ![t] = @ - 1]

\* The thread returns to its caller.
Return(t) ==
    /\ pc' = [pc EXCEPT ![t] = "idle"]
    /\ self_' = [self_ EXCEPT ![t] = NoContainer]
    /\ other' = [other EXCEPT ![t] = NoContainer]
    /\ first' = [first EXCEPT ![t] = NoContainer]

\* The deleter runs on p (std::unique_ptr calls it only for a non-null p).
Cleanup(p) ==
    IF p = Null
    THEN UNCHANGED <<heap, cleaned>>
    ELSE /\ heap' = [heap EXCEPT ![p] = "deleted"]
         /\ cleaned' = [cleaned EXCEPT ![p] = @ + 1]

\* ------------------------------------------------------- operator-> , operator*
\* operator->: the argument m_value.get() of proxy_locker(m_mtx, m_value.get())
\* is evaluated before the constructor runs, that is before m_lock(mtx).
ArrowArg(t, c) ==
    /\ Call(t, c)
    /\ pc' = [pc EXCEPT ![t] = "px_lock"]
    /\ self_' = [self_ EXCEPT ![t] = c]
    /\ m_ptr' = [m_ptr EXCEPT ![t] = m_value[c]]
    /\ proxy' = [proxy EXCEPT ![t] = "proxy_locker"]
    /\ UNCHANGED <<cvars, hvars, other, first, ret, reg, guards, index>>

\* operator*: the same with proxy_locker_for_subscript.
StarArg(t, c) ==
    /\ Call(t, c)
    /\ pc' = [pc EXCEPT ![t] = "px_lock"]
    /\ self_' = [self_ EXCEPT ![t] = c]
    /\ m_ptr' = [m_ptr EXCEPT ![t] = m_value[c]]
    /\ proxy' = [proxy EXCEPT ![t] = "proxy_locker_for_subscript"]
    /\ UNCHANGED <<cvars, hvars, other, first, ret, reg, guards, index>>

\* Mutant of ProxyCtor: the proxy's unique_lock is built without waiting for
\* the mutex (as with std::defer_lock / std::adopt_lock).
ProxyCtorNoWait(t) ==
    /\ pc[t] = "px_lock"
    /\ m_mtx' = [m_mtx EXCEPT ![self_[t]] = TRUE]
    /\ pc' = [pc EXCEPT ![t] = "guarded"]
    /\ guards' = [guards EXCEPT ![t] = <<TRUE>>]
    /\ UNCHANGED <<life, m_value, deleter, hvars, self_, other, first, m_ptr, proxy, ret, reg, index, quota>>

\* proxy constructor: m_lock(mtx) blocks until the mutex is free, m_ptr(ptr).
ProxyCtor(t) ==
    /\ pc[t] = "px_lock"
    /\ MutexLock(self_[t])
    /\ pc' = [pc EXCEPT ![t] = "guarded"]
    /\ guards' = [guards EXCEPT ![t] = <<TRUE>>]
    /\ UNCHANGED <<life, m_value, deleter, hvars, self_, other, first, m_ptr, proxy, ret, reg, index, quota>>

\* Mutant of ProxyMove: the new proxy is a copy, the source keeps owning the mutex.
ProxyMoveCopies(t) ==
    /\ pc[t] = "guarded"
    /\ Len(guards[t]) < MaxGuards
    /\ \E i \in 1..Len(guards[t]) :
        guards' = [guards EXCEPT ![t] = Append(guards[t], guards[t][i])]
    /\ UNCHANGED <<cvars, hvars, pc, self_, other, first, m_ptr, proxy, ret, reg, index, quota>>

\* proxy_locker(proxy_locker&&) / proxy_locker_for_subscript(...&&) = default:
\* m_lock is move-constructed (the new unique_lock takes the source's mutex and
\* ownership, the source is left owning nothing), m_ptr is copied.
ProxyMove(t) ==
    /\ pc[t] = "guarded"
    /\ Len(guards[t]) < MaxGuards
    /\ \E i \in 1..Len(guards[t]) :
        guards' = [guards EXCEPT ![t] = Append([guards[t] EXCEPT ![i] = FALSE], guards[t][i])]
    /\ UNCHANGED <<cvars, hvars, pc, self_, other, first, m_ptr, proxy, ret, reg, index, quota>>

\* The call forwarded through the proxy (proxy_locker::operator-> /
\* proxy_locker_for_subscript::operator[]); what the callee does is the caller's.
ProxyUse(t) ==
    /\ pc[t] = "guarded"
    /\ pc' = [pc EXCEPT ![t] = "used"]
    /\ UNCHANGED <<cvars, hvars, tvars, quota>>

\* Mutant of IndexWrite: operator[] returns *m_ptr whatever the index.
IndexWriteIgnoresIndex(t, i) ==
    /\ pc[t] = "guarded"
    /\ proxy[t] = "proxy_locker_for_subscript"
    /\ m_ptr[t] # Null
    /\ i \in DOMAIN elems[m_ptr[t]]
    /\ elems' = [elems EXCEPT ![m_ptr[t]][0] = {Value(i)}]
    /\ index' = [index EXCEPT ![t] = i]
    /\ pc' = [pc EXCEPT ![t] = "idx_wr"]
    /\ UNCHANGED <<cvars, heap, cleaned, val, self_, other, first, m_ptr, proxy, ret, reg, guards, quota>>

\* (*c)[i] = Value(i): proxy_locker_for_subscript::operator[] returns
\* m_ptr[index], which is assigned. The index is inside the array (anything
\* else is undefined).
IndexWrite(t, i) ==
    /\ pc[t] = "guarded"
    /\ proxy[t] = "proxy_locker_for_subscript"
    /\ m_ptr[t] # Null
    /\ i \in DOMAIN elems[m_ptr[t]]
    /\ elems' = [elems EXCEPT ![m_ptr[t]][i] = {Value(i)}]
    /\ index' = [index EXCEPT ![t] = i]
    /\ pc' = [pc EXCEPT ![t] = "idx_wr"]
    /\ UNCHANGED <<cvars, heap, cleaned, val, self_, other, first, m_ptr, proxy, ret, reg, guards, quota>>

\* x = (*c)[i]: m_ptr[index] is read.
IndexRead(t, i) ==
    /\ pc[t] = "guarded"
    /\ proxy[t] = "proxy_locker_for_subscript"
    /\ m_ptr[t] # Null
    /\ i \in DOMAIN elems[m_ptr[t]]
    /\ \E v \in elems[m_ptr[t]][i] : reg' = [reg EXCEPT ![t] = v]
    /\ index' = [index EXCEPT ![t] = i]
    /\ pc' = [pc EXCEPT ![t] = "idx_rd"]
    /\ UNCHANGED <<cvars, hvars, self_, other, first, m_ptr, proxy, ret, guards, quota>>

\* Mutant of ProxyDtor: the proxy goes away without unlocking the mutex.
ProxyDtorNoUnlock(t) ==
    /\ pc[t] \in {"used", "idx_wr", "idx_rd"}
    /\ \E i \in 1..Len(guards[t]) :
        guards' = [guards EXCEPT ![t] = RemoveAt(guards[t], i)]
    /\ IF Len(guards[t]) = 1
       THEN /\ Return(t)
            /\ m_ptr' = [m_ptr EXCEPT ![t] = Null]
            /\ proxy' = [proxy EXCEPT ![t] = "none"]
            /\ reg' = [reg EXCEPT ![t] = 0]
            /\ index' = [index EXCEPT ![t] = 0]
       ELSE UNCHANGED <<pc, self_, other, first, m_ptr, proxy, reg, index>>
    /\ UNCHANGED <<cvars, hvars, ret, quota>>

\* proxy destructor (the proxy of the access expression at the end of the full
\* expression, a proxy it was moved into when that one goes out of scope):
\* ~unique_lock unlocks when it owns the mutex. The access is over when the
\* thread's last proxy is gone.
ProxyDtor(t) ==
    /\ pc[t] \in {"used", "idx_wr", "idx_rd"}
    /\ \E i \in 1..Len(guards[t]) :
        /\ IF guards[t][i] THEN MutexUnlock(self_[t]) ELSE UNCHANGED m_mtx
        /\ guards' = [guards EXCEPT ![t] = RemoveAt(guards[t], i)]
    /\ IF Len(guards[t]) = 1
       THEN /\ Return(t)
            /\ m_ptr' = [m_ptr EXCEPT ![t] = Null]
            /\ proxy' = [proxy EXCEPT ![t] = "none"]
            /\ reg' = [reg EXCEPT ![t] = 0]
            /\ index' = [index EXCEPT ![t] = 0]
       ELSE UNCHANGED <<pc, self_, other, first, m_ptr, proxy, reg, index>>
    /\ UNCHANGED <<life, m_value, deleter, hvars, ret, quota>>

\* ------------------------------------------------------- lock / get / unlock
\* lock() is called ...
LockCall(t, c) ==
    /\ Call(t, c)
    /\ pc' = [pc EXCEPT ![t] = "lk_wait"]
    /\ self_' = [self_ EXCEPT ![t] = c]
    /\ UNCHANGED <<cvars, hvars, other, first, lvars>>

\* Mutant of LockAcquire: lock() returns without waiting for the mutex.
LockAcquireNoWait(t) ==
    /\ pc[t] \in {"lk_wait", "lk_relock", "px_relock"}
    /\ m_mtx' = [m_mtx EXCEPT ![self_[t]] = TRUE]
    /\ pc' = [pc EXCEPT ![t] = "locked"]
    /\ UNCHANGED <<life, m_value, deleter, hvars, tvars, quota>>

\* ... and m_mtx.lock() returns once the mutex is free, whoever holds it: the
\* mutex does not know its owner (a std::mutex locked again by its owner
\* waits for itself).
LockAcquire(t) ==
    /\ pc[t] \in {"lk_wait", "lk_relock", "px_relock"}
    /\ MutexLock(self_[t])
    /\ pc' = [pc EXCEPT ![t] = "locked"]
    /\ UNCHANGED <<life, m_value, deleter, hvars, tvars, quota>>

\* lock() is called by a thread that already holds the mutex, through an
\* earlier lock() or through a live proxy.
RelockCall(t) ==
    /\ pc[t] \in {"locked", "guarded"}
    /\ quota[t] > 0
    /\ quota' = [quota EXCEPT ![t] = @ - 1]
    /\ pc' = [pc EXCEPT ![t] = IF pc[t] = "locked" THEN "lk_relock" ELSE "px_relock"]
    /\ UNCHANGED <<cvars, hvars, tvars>>

\* get() by the thread that holds the lock.
GetLocked(t) ==
    /\ pc[t] = "locked"
    /\ ret' = [ret EXCEPT ![t] = m_value[self_[t]]]
    /\ pc' = [pc EXCEPT ![t] = "got"]
    /\ UNCHANGED <<cvars, hvars, self_, other, first, m_ptr, proxy, reg, quota, guards, index>>

\* unlock(): m_mtx.unlock(). In the queue sequence it follows the pop, or the
\* check when the queue was empty. The sequence ends here and the caller's
\* copy of the pointer goes out of scope.
Unlock(t) ==
    /\ pc[t] \in {"locked", "got", "checked", "popped"}
    /\ pc[t] = "checked" => reg[t] = 0
    /\ MutexUnlock(self_[t])
    /\ Return(t)
    /\ ret' = [ret EXCEPT ![t] = Null]
    /\ reg' = [reg EXCEPT ![t] = 0]
    /\ UNCHANGED <<life, m_value, deleter, hvars, m_ptr, proxy, quota, guards, index>>

\* Mutant of Get: get() returns m_value.release().
GetReleases(t, c) ==
    /\ Call(t, c)
    /\ ret' = [ret EXCEPT ![t] = m_value[c]]
    /\ m_value' = [m_value EXCEPT ![c] = Null]
    /\ pc' = [pc EXCEPT ![t] = "get_ret"]
    /\ self_' = [self_ EXCEPT ![t] = c]
    /\ UNCHANGED <<life, m_mtx, deleter, hvars, other, first, m_ptr, proxy, reg, guards, index>>

\* Mutant of Get: get() takes the mutex for the read.
GetLocks(t, c) ==
    /\ Call(t, c)
    /\ ~m_mtx[c]
    /\ ret' = [ret EXCEPT ![t] = m_value[c]]
    /\ pc' = [pc EXCEPT ![t] = "get_ret"]
    /\ self_' = [self_ EXCEPT ![t] = c]
    /\ UNCHANGED <<cvars, hvars, other, first, m_ptr, proxy, reg, guards, index>>

\* get() without the lock: return m_value.get() ...
Get(t, c) ==
    /\ Call(t, c)
    /\ ret' = [ret EXCEPT ![t] = m_value[c]]
    /\ pc' = [pc EXCEPT ![t] = "get_ret"]
    /\ self_' = [self_ EXCEPT ![t] = c]
    /\ UNCHANGED <<cvars, hvars, other, first, m_ptr, proxy, reg, guards, index>>

\* ... and the caller is done with the returned pointer.
GetDone(t) ==
    /\ pc[t] = "get_ret"
    /\ Return(t)
    /\ ret' = [ret EXCEPT ![t] = Null]
    /\ UNCHANGED <<cvars, hvars, m_ptr, proxy, reg, quota, guards, index>>

\* ------------------------------------------------------- construction, destruction
\* Mutant of Construct: the constructor drops its argument and leaves m_value null.
ConstructDropsPointer(t, c, fresh, d) ==
    /\ pc[t] = "idle"
    /\ quota[t] > 0
    /\ life[c] = "none"
    /\ fresh => \E o \in Objects : heap[o] = "free"
    /\ quota' = [quota EXCEPT ![t] = @ - 1]
    /\ life' = [life EXCEPT ![c] = "live"]
    /\ m_mtx' = [m_mtx EXCEPT ![c] = FALSE]
    /\ m_value' = [m_value EXCEPT ![c] = Null]
    /\ deleter' = [deleter EXCEPT ![c] = d]
    /\ heap' = IF fresh THEN [heap EXCEPT ![NewObject] = "alive"] ELSE heap
    /\ UNCHANGED <<cleaned, val, pc, tvars, elems>>

\* unique_ptr(value_ptr) / unique_ptr(value_ptr, deleter): m_mtx {}, m_value(value_ptr[, deleter]).
\* value_ptr is null or a new object.
Construct(t, c, fresh, d) ==
    /\ pc[t] = "idle"
    /\ quota[t] > 0
    /\ life[c] = "none"
    /\ fresh => \E o \in Objects : heap[o] = "free"
    /\ quota' = [quota EXCEPT ![t] = @ - 1]
    /\ life' = [life EXCEPT ![c] = "live"]
    /\ m_mtx' = [m_mtx EXCEPT ![c] = FALSE]
    /\ m_value' = [m_value EXCEPT ![c] = IF fresh THEN NewObject ELSE Null]
    /\ deleter' = [deleter EXCEPT ![c] = d]
    /\ heap' = IF fresh THEN [heap EXCEPT ![NewObject] = "alive"] ELSE heap
    /\ UNCHANGED <<cleaned, val, pc, tvars, elems>>

\* make_unique<T[]>(n): unique_ptr<T>(new t_element_type[n]). new[] gives a
\* non-null pointer for every n, n = 0 included, and leaves the elements
\* default-initialized: a read before the first write can give any value.
MakeArray(t, c, n) ==
    /\ pc[t] = "idle"
    /\ quota[t] > 0
    /\ life[c] = "none"
    /\ \E o \in Objects : heap[o] = "free"
    /\ quota' = [quota EXCEPT ![t] = @ - 1]
    /\ life' = [life EXCEPT ![c] = "live"]
    /\ m_mtx' = [m_mtx EXCEPT ![c] = FALSE]
    /\ m_value' = [m_value EXCEPT ![c] = NewObject]
    /\ deleter' = [deleter EXCEPT ![c] = "default_delete"]
    /\ heap' = [heap EXCEPT ![NewObject] = "alive"]
    /\ elems' = [elems EXCEPT ![NewObject] = [i \in 0..(n - 1) |-> Values]]
    /\ UNCHANGED <<cleaned, val, pc, tvars>>

\* ~unique_ptr (implicit): m_value is destroyed, which runs the deleter on a
\* non-null pointer, then m_mtx. The object's lifetime ends only when no thread
\* is inside one of its member functions.
Destroy(t, c) ==
    /\ Call(t, c)
    /\ \A u \in Threads : ~Using(u, c)
    /\ Cleanup(m_value[c])
    /\ life' = [life EXCEPT ![c] = "none"]
    /\ m_value' = [m_value EXCEPT ![c] = Null]
    /\ deleter' = [deleter EXCEPT ![c] = "default_delete"]
    /\ UNCHANGED <<m_mtx, val, pc, tvars, elems>>

\* ------------------------------------------------------- moves
\* operator=(unique_ptr&& other) is called on dst with src; nothing in it
\* tells a = std::move(a) from a move between two containers.
MoveAssign(t, dst, src) ==
    /\ Call(t, dst)
    /\ life[src] = "live"
    /\ pc' = [pc EXCEPT ![t] = "sl_lock"]
    /\ self_' = [self_ EXCEPT ![t] = dst]
    /\ other' = [other EXCEPT ![t] = src]
    /\ first' = [first EXCEPT ![t] = dst]
    /\ UNCHANGED <<cvars, hvars, lvars>>

\* unique_ptr(unique_ptr&& other): the members of the new object are
\* default-initialized (unlocked mutex, null m_value) before the body runs.
MoveConstruct(t, new, src) ==
    /\ pc[t] = "idle"
    /\ quota[t] > 0
    /\ life[new] = "none"
    /\ life[src] = "live"
    /\ quota' = [quota EXCEPT ![t] = @ - 1]
    /\ life' = [life EXCEPT ![new] = "ctor"]
    /\ m_mtx' = [m_mtx EXCEPT ![new] = FALSE]
    /\ m_value' = [m_value EXCEPT ![new] = Null]
    /\ deleter' = [deleter EXCEPT ![new] = "default_delete"]
    /\ pc' = [pc EXCEPT ![t] = "sl_lock"]
    /\ self_' = [self_ EXCEPT ![t] = new]
    /\ other' = [other EXCEPT ![t] = src]
    /\ first' = [first EXCEPT ![t] = new]
    /\ UNCHANGED <<hvars, lvars>>

\* The mutex of the pair {this->m_mtx, other.m_mtx} that is not `first`.
Second(t) == IF first[t] = self_[t] THEN other[t] ELSE self_[t]

\* std::scoped_lock lock {this->m_mtx, other.m_mtx} is std::lock(a, b):
\* lock() the first mutex (blocking) ...
ScopedLockFirst(t) ==
    /\ pc[t] = "sl_lock"
    /\ MutexLock(first[t])
    /\ pc' = [pc EXCEPT ![t] = "sl_try"]
    /\ UNCHANGED <<life, m_value, deleter, hvars, tvars, quota>>

\* Mutant of ScopedLockSecond: the move locks this->m_mtx only.
ScopedLockSecondSkipped(t) ==
    /\ pc[t] = "sl_try"
    /\ pc' = [pc EXCEPT ![t] = "mv_xfer"]
    /\ UNCHANGED <<cvars, hvars, tvars, quota>>

\* ... try_lock() the second: when it succeeds both are held ...
ScopedLockSecond(t) ==
    /\ pc[t] = "sl_try"
    /\ MutexLock(Second(t))
    /\ pc' = [pc EXCEPT ![t] = "mv_xfer"]
    /\ UNCHANGED <<life, m_value, deleter, hvars, tvars, quota>>

\* Mutant of ScopedLockBackOff: two sequential lock() calls, so a thread that
\* finds the second mutex taken keeps the first and has no step until it is free.
ScopedLockNoBackOff(t) ==
    /\ pc[t] = "sl_try"
    /\ FALSE
    /\ UNCHANGED vars

\* ... and when it fails the first is unlocked and the roles are swapped.
ScopedLockBackOff(t) ==
    /\ pc[t] = "sl_try"
    /\ m_mtx[Second(t)]
    /\ MutexUnlock(first[t])
    /\ first' = [first EXCEPT ![t] = Second(t)]
    /\ pc' = [pc EXCEPT ![t] = "sl_lock"]
    /\ UNCHANGED <<life, m_value, deleter, hvars, self_, other, lvars, quota>>

\* Mutant of MoveValue: the pointer is copied and other keeps it.
MoveValueKeepsSource(t) ==
    /\ pc[t] = "mv_xfer"
    /\ m_value' = [m_value EXCEPT ![self_[t]] = m_value[other[t]]]
    /\ deleter' = [deleter EXCEPT ![self_[t]] = deleter[other[t]]]
    /\ Cleanup(m_value[self_[t]])
    /\ pc' = [pc EXCEPT ![t] = "mv_unlock1"]
    /\ UNCHANGED <<life, m_mtx, val, tvars, quota, elems>>

\* Mutant of MoveValue: the pointer this held is overwritten without cleanup.
MoveValueLeaks(t) ==
    /\ pc[t] = "mv_xfer"
    /\ m_value' = [m_value EXCEPT ![self_[t]] = m_value[other[t]], ![other[t]] = Null]
    /\ deleter' = [deleter EXCEPT ![self_[t]] = deleter[other[t]]]
    /\ pc' = [pc EXCEPT ![t] = "mv_unlock1"]
    /\ UNCHANGED <<life, m_mtx, hvars, tvars, quota>>

\* Mutant of MoveValue: the pointer moves and the deleter stays behind.
MoveValueKeepsDeleter(t) ==
    /\ pc[t] = "mv_xfer"
    /\ m_value' = [m_value EXCEPT ![self_[t]] = m_value[other[t]], ![other[t]] = Null]
    /\ Cleanup(m_value[self_[t]])
    /\ pc' = [pc EXCEPT ![t] = "mv_unlock1"]
    /\ UNCHANGED <<life, m_mtx, deleter, val, tvars, quota, elems>>

\* this->m_value = std::move(other.m_value): reset(other.release()) runs the
\* deleter on the pointer this held, then the deleter is assigned from other's.
MoveValue(t) ==
    /\ pc[t] = "mv_xfer"
    /\ m_value' = [m_value EXCEPT ![self_[t]] = m_value[other[t]], ![other[t]] = Null]
    /\ deleter' = [deleter EXCEPT ![self_[t]] = deleter[other[t]]]
    /\ Cleanup(m_value[self_[t]])
    /\ pc' = [pc EXCEPT ![t] = "mv_unlock1"]
    /\ UNCHANGED <<life, m_mtx, val, tvars, quota, elems>>

\* ~scoped_lock unlocks this->m_mtx ...
MoveUnlockThis(t) ==
    /\ pc[t] = "mv_unlock1"
    /\ MutexUnlock(self_[t])
    /\ pc' = [pc EXCEPT ![t] = "mv_unlock2"]
    /\ UNCHANGED <<life, m_value, deleter, hvars, tvars, quota>>

\* ... then other.m_mtx, and the move returns (a move constructor's object is
\* constructed from here on).
MoveUnlockOther(t) ==
    /\ pc[t] = "mv_unlock2"
    /\ MutexUnlock(other[t])
    /\ life' = [life EXCEPT ![self_[t]] = "live"]
    /\ Return(t)
    /\ UNCHANGED <<m_value, deleter, hvars, lvars, quota>>

\* ------------------------------------------------------- the managed object's members
\* container->increment(): ++n on the object the proxy exposes is a read ...
IncRead(t) ==
    /\ pc[t] = "guarded"
    /\ m_ptr[t] # Null
    /\ reg' = [reg EXCEPT ![t] = val[m_ptr[t]]]
    /\ pc' = [pc EXCEPT ![t] = "inc_w"]
    /\ UNCHANGED <<cvars, hvars, self_, other, first, m_ptr, proxy, ret, quota, guards, index>>

\* ... and a write.
IncWrite(t) ==
    /\ pc[t] = "inc_w"
    /\ val' = [val EXCEPT ![m_ptr[t]] = reg[t] + 1]
    /\ pc' = [pc EXCEPT ![t] = "used"]
    /\ UNCHANGED <<cvars, heap, cleaned, tvars, quota, elems>>

\* queue.get()->empty() under lock(): the size is read ...
CheckEmpty(t) ==
    /\ pc[t] = "locked"
    /\ m_value[self_[t]] # Null
    /\ ret' = [ret EXCEPT ![t] = m_value[self_[t]]]
    /\ reg' = [reg EXCEPT ![t] = val[m_value[self_[t]]]]
    /\ pc' = [pc EXCEPT ![t] = "checked"]
    /\ UNCHANGED <<cvars, hvars, self_, other, first, m_ptr, proxy, quota, guards, index>>

\* ... and queue.get()->pop() removes one element when it was not empty.
Pop(t) ==
    /\ pc[t] = "checked"
    /\ reg[t] # 0
    /\ val' = [val EXCEPT ![m_value[self_[t]]] = @ - 1]
    /\ pc' = [pc EXCEPT ![t] = "popped"]
    /\ UNCHANGED <<cvars, heap, cleaned, tvars, quota, elems>>

\* ------------------------------------------------------- specifications
\* Threads call any member function on any container.
Next ==
    \E t \in Threads :
        \/ \E c \in Containers : ArrowArg(t, c)
        \/ \E c \in Containers : StarArg(t, c)
        \/ ProxyCtor(t)
        \/ ProxyUse(t)
        \/ ProxyDtor(t)
        \/ \E c \in Containers : LockCall(t, c)
        \/ LockAcquire(t)
        \/ GetLocked(t)
        \/ Unlock(t)
        \/ \E c \in Containers : Get(t, c)
        \/ GetDone(t)
        \/ \E c \in Containers, fresh \in BOOLEAN, d \in Deleters : Construct(t, c, fresh, d)
        \/ \E c \in Containers : Destroy(t, c)
        \/ \E dst, src \in Containers : MoveAssign(t, dst, src)
        \/ \E new, src \in Containers : MoveConstruct(t, new, src)
        \/ ScopedLockFirst(t)
        \/ ScopedLockSecond(t)
        \/ ScopedLockBackOff(t)
        \/ MoveValue(t)
        \/ MoveUnlockThis(t)
        \/ MoveUnlockOther(t)

Spec == Init /\ [][Next]_vars

\* The increment test: every thread runs container->increment() Rounds times on A.
InitCounter == Start(0, [t \in Threads |-> Rounds])

NextCounter ==
    \E t \in Threads :
        \/ ArrowArg(t, "A")
        \/ ProxyCtor(t)
        \/ IncRead(t)
        \/ IncWrite(t)
        \/ ProxyDtor(t)

SpecCounter == InitCounter /\ [][NextCounter]_vars

\* The queue test: A holds a queue of QueueLen elements and every thread runs
\* lock(); if (!get()->empty()) get()->pop(); unlock() Rounds times.
InitQueue == Start(QueueLen, [t \in Threads |-> Rounds])

NextQueue ==
    \E t \in Threads :
        \/ LockCall(t, "A")
        \/ LockAcquire(t)
        \/ CheckEmpty(t)
        \/ Pop(t)
        \/ Unlock(t)

SpecQueue == InitQueue /\ [][NextQueue]_vars

\* Access expressions on A and B while A and B are moved into each other:
\* every thread makes Rounds calls.
InitMoveAccess == Start(0, [t \in Threads |-> Rounds])

NextMoveAccess ==
    \E t \in Threads :
        \/ \E c \in {"A", "B"} : ArrowArg(t, c)
        \/ \E c \in {"A", "B"} : StarArg(t, c)
        \/ ProxyCtor(t)
        \/ ProxyUse(t)
        \/ ProxyDtor(t)
        \/ \E dst, src \in {"A", "B"} : dst # src /\ MoveAssign(t, dst, src)
        \/ ScopedLockFirst(t)
        \/ ScopedLockSecond(t)
        \/ ScopedLockBackOff(t)
        \/ MoveValue(t)
        \/ MoveUnlockThis(t)
        \/ MoveUnlockOther(t)

SpecMoveAccess == InitMoveAccess /\ [][NextMoveAccess]_vars

\* Containers B and C are constructed (from a new object or from null),
\* read through lock(); get(); unlock() and through a bare get(), and destroyed;
\* nothing is moved. The threads make CtorOps calls between them.
InitConstruct ==
    \E q \in [Threads -> 0..CtorOps] :
        /\ Sum(q, Threads) = CtorOps
        /\ \A t, u \in Threads : t < u => q[t] >= q[u]
        /\ Start(0, q)

NextConstruct ==
    \E t \in Threads :
        \/ \E c \in {"B", "C"}, fresh \in BOOLEAN, d \in Deleters : Construct(t, c, fresh, d)
        \/ \E c \in {"B", "C"} : Destroy(t, c)
        \/ \E c \in {"B", "C"} : LockCall(t, c)
        \/ LockAcquire(t)
        \/ GetLocked(t)
        \/ Unlock(t)
        \/ \E c \in {"B", "C"} : Get(t, c)
        \/ GetDone(t)

SpecConstruct == InitConstruct /\ [][NextConstruct]_vars

\* Access expressions and lock() ... unlock() sections on A in which a thread
\* may call lock() again. Every thread makes Rounds calls.
InitRelock == Start(0, [t \in Threads |-> Rounds])

NextRelock ==
    \E t \in Threads :
        \/ ArrowArg(t, "A")
        \/ ProxyCtor(t)
        \/ ProxyUse(t)
        \/ ProxyDtor(t)
        \/ LockCall(t, "A")
        \/ LockAcquire(t)
        \/ RelockCall(t)
        \/ Unlock(t)

SpecRelock == InitRelock /\ [][NextRelock]_vars

\* Every thread performs Rounds operations on A, each a single access
\* expression (-> or *) or a lock(); get(); unlock() sequence, and every
\* thread that can take a step eventually takes one.
InitAccess == Start(0, [t \in Threads |-> Rounds])

AccessStep(t) ==
    \/ ArrowArg(t, "A")
    \/ StarArg(t, "A")
    \/ ProxyCtor(t)
    \/ ProxyUse(t)
    \/ ProxyDtor(t)
    \/ LockCall(t, "A")
    \/ LockAcquire(t)
    \/ GetLocked(t)
    \/ Unlock(t)

NextAccess == \E t \in Threads : AccessStep(t)

SpecAccessFair ==
    /\ InitAccess
    /\ [][NextAccess]_vars
    /\ \A t \in Threads : WF_vars(AccessStep(t))

\* Access expressions on A whose proxy is moved into further proxies before
\* the call is made; the proxies are destroyed in any order. The threads run
\* MaxOps access expressions between them.
InitProxyMove == Init

NextProxyMove ==
    \E t \in Threads :
        \/ ArrowArg(t, "A")
        \/ StarArg(t, "A")
        \/ ProxyCtor(t)
        \/ ProxyMove(t)
        \/ ProxyUse(t)
        \/ ProxyDtor(t)

SpecProxyMove == InitProxyMove /\ [][NextProxyMove]_vars

\* The array test: C is built by make_unique<T[]>(n) and the threads write and
\* read its elements through (*c)[i]. Every thread makes Rounds calls.
InitArray == Start(0, [t \in Threads |-> Rounds])

NextArray ==
    \E t \in Threads :
        \/ \E n \in 0..MaxLen : MakeArray(t, "C", n)
        \/ StarArg(t, "C")
        \/ ProxyCtor(t)
        \/ \E i \in 0..(MaxLen - 1) : IndexWrite(t, i)
        \/ \E i \in 0..(MaxLen - 1) : IndexRead(t, i)
        \/ ProxyUse(t)
        \/ ProxyDtor(t)

SpecArray == InitArray /\ [][NextArray]_vars

\* ------------------------------------------------------- properties
InProxy(t) == pc[t] \in {"guarded", "inc_w", "used", "idx_wr", "idx_rd"}
WaitsFor(t, c) == pc[t] \in {"px_lock", "lk_wait"} /\ self_[t] = c
InMove(t) == pc[t] \in {"sl_lock", "sl_try", "mv_xfer", "mv_unlock1", "mv_unlock2"}
Done(t) == pc[t] = "idle" /\ quota[t] = 0

\* C1: at most one thread holds a container's mutex, however it was taken
\* (proxy of -> or *, lock(), or a move), and the mutex is locked exactly
\* when some thread holds it.
MutualExclusion ==
    \A c \in Containers :
        /\ Cardinality(Holders(c)) <= 1
        /\ m_mtx[c] <=> Holders(c) # {}

\* C1 witness: one thread is inside its access expression on A while another
\* waits for A's mutex.
MutualExclusionWitness ==
    \E t, u \in Threads :
        /\ t # u
        /\ pc[t] = "guarded" /\ self_[t] = "A"
        /\ WaitsFor(u, "A")

\* C2: once every thread has finished its Rounds increments, the counter is
\* NThreads * Rounds.
NoLostUpdate ==
    (\A t \in Threads : Done(t)) => val[1] = NThreads * Rounds

\* C2 witness: all threads finished and every increment was counted.
NoLostUpdateWitness ==
    /\ \A t \in Threads : Done(t)
    /\ val[1] = NThreads * Rounds

\* C3: in the queue test the size is never negative, the size a thread checked
\* is still the size when it removes, and no two threads are between lock()
\* and unlock() together.
QueueSequenceAtomic ==
    /\ val[1] >= 0
    /\ \A t \in Threads : pc[t] = "checked" => reg[t] = val[1]
    /\ \A t, u \in Threads :
        (t # u /\ pc[t] \in {"locked", "checked", "popped"})
            => pc[u] \notin {"locked", "checked", "popped"}

\* C3 witness: a thread removed the last element while another was waiting in
\* lock().
QueueSequenceWitness ==
    \E t, u \in Threads :
        /\ t # u
        /\ pc[t] = "popped" /\ val[1] = 0
        /\ pc[u] = "lk_wait"

\* C4: while a proxy holds the mutex, the pointer it exposes is the pointer
\* the container manages.
ProxyBoundToCurrent ==
    \A t \in Threads : InProxy(t) => m_ptr[t] = m_value[self_[t]]

\* C5: the managed pointer of a constructed container changes only in the
\* transfer step of a move whose thread is the one holder of both mutexes; so
\* never while another thread holds either of them.
MoveUnderBothLocks ==
    [][\A c \in Containers :
          (life[c] # "none" /\ life'[c] # "none" /\ m_value'[c] # m_value[c])
          => \E t \in Threads :
                /\ pc[t] = "mv_xfer"
                /\ c \in {self_[t], other[t]}
                /\ m_mtx[self_[t]] /\ m_mtx[other[t]]
                /\ Holders(self_[t]) = {t}
                /\ Holders(other[t]) = {t}]_vars

\* C5 witness: a move has just transferred the pointer while another thread
\* waits for the mutex of its source or destination.
MoveUnderBothLocksWitness ==
    \E t, u \in Threads :
        /\ t # u
        /\ pc[t] = "mv_unlock1"
        /\ m_value[self_[t]] # Null
        /\ \E c \in {self_[t], other[t]} : WaitsFor(u, c)

\* A thread inside std::lock that has no step.
StuckInLock(t) ==
    /\ pc[t] \in {"sl_lock", "sl_try"}
    /\ ~ENABLED (ScopedLockFirst(t) \/ ScopedLockSecond(t) \/ ScopedLockBackOff(t))

\* C6: a thread that cannot go on inside std::lock holds no mutex; so two
\* moves never wait for each other, each holding one mutex.
NoHoldAndWait ==
    /\ \A t \in Threads : StuckInLock(t) => \A c \in Containers : ~Holds(t, c)
    /\ ~\E t, u \in Threads :
          /\ t # u
          /\ StuckInLock(t) /\ StuckInLock(u)
          /\ \E c \in Containers : Holds(t, c)
          /\ \E c \in Containers : Holds(u, c)

\* C6 witness: A = std::move(B) and B = std::move(A) run together; one thread
\* found the second mutex taken, gave the first back and now waits, holding
\* nothing, while the other holds both.
NoHoldAndWaitWitness ==
    \E t, u \in Threads :
        /\ t # u
        /\ pc[t] = "sl_lock" /\ pc[u] = "mv_xfer"
        /\ self_[t] = other[u] /\ other[t] = self_[u]
        /\ life[self_[t]] = "live" /\ life[self_[u]] = "live"
        /\ first[t] = other[t] /\ StuckInLock(t)

\* C7: the transfer step of a move leaves null in the source and the source's
\* pointer and deleter in the destination.
MoveTransfers ==
    [][\A t \in Threads :
          (pc[t] = "mv_xfer" /\ pc'[t] # "mv_xfer")
          => /\ m_value'[self_[t]] = m_value[other[t]]
             /\ m_value'[other[t]] = Null
             /\ deleter'[self_[t]] = deleter[other[t]]]_vars

\* C7 witness: B, built with the custom deleter, was moved into A.
MoveTransfersWitness ==
    \E t \in Threads :
        /\ pc[t] = "mv_unlock1"
        /\ self_[t] = "A" /\ other[t] = "B"
        /\ m_value["A"] = 2 /\ m_value["B"] = Null
        /\ deleter["A"] = "custom"

\* C8: a deleter ran at most once on every object; an object is alive exactly
\* while a container manages it, and was cleaned up exactly once when none does.
CleanupExactlyOnce ==
    \A o \in Objects :
        /\ cleaned[o] <= 1
        /\ heap[o] = "alive" <=> \E c \in Containers : m_value[c] = o
        /\ heap[o] = "alive" => cleaned[o] = 0
        /\ heap[o] = "deleted" <=> cleaned[o] = 1
        /\ heap[o] = "free" => cleaned[o] = 0

\* C8 witness: both objects were cleaned up once, one by a move-assignment
\* onto a non-empty container and one by a destructor.
CleanupExactlyOnceWitness ==
    /\ cleaned[1] = 1 /\ cleaned[2] = 1
    /\ life["A"] = "none"
    /\ \A t \in Threads : Done(t)

\* C9: no object is managed by two containers.
UniqueOwner ==
    \A c, d \in Containers :
        (c # d /\ m_value[c] # Null) => m_value[c] # m_value[d]

\* C9 witness: an object changed its owner while a second move is under way.
UniqueOwnerWitness ==
    /\ m_value["A"] = 2
    /\ \E t \in Threads : pc[t] = "mv_xfer" /\ other[t] = "A"

\* C10: a proxy holds its container's mutex for as long as it lives, and its
\* destructor leaves the mutex free, so that a waiting lock(), -> or * can go on.
ProxyHoldsUntilDestroyed ==
    /\ [](\A t \in Threads : InProxy(t) => (m_mtx[self_[t]] /\ Holds(t, self_[t])))
    /\ [][\A t \in Threads :
            (pc[t] = "used" /\ pc'[t] = "idle") => ~m_mtx'[self_[t]]]_vars
    /\ [](\A u \in Threads, c \in Containers :
            (WaitsFor(u, c) /\ ~m_mtx[c]) => ENABLED (ProxyCtor(u) \/ LockAcquire(u)))

\* C10 witness: a proxy is about to be destroyed while another thread waits
\* for the same mutex.
ProxyHoldsWitness ==
    \E t, u \in Threads :
        /\ t # u
        /\ pc[t] = "used"
        /\ WaitsFor(u, self_[t])

\* C12: get() returns the managed pointer in one step that leaves every mutex,
\* every holder and every managed pointer as they were, and the step can be
\* taken whatever the state of the mutex.
GetIsUnsynchronized ==
    /\ [][\A t \in Threads :
            (pc[t] = "idle" /\ pc'[t] = "get_ret")
            => /\ ret'[t] = m_value[self_'[t]]
               /\ m_mtx' = m_mtx
               /\ m_value' = m_value
               /\ \A c \in Containers : Holders(c)' = Holders(c)]_vars
    /\ [](\A t \in Threads, c \in Containers :
            (pc[t] = "idle" /\ quota[t] > 0 /\ life[c] = "live") => ENABLED Get(t, c))

\* C12 witness: get() has returned the pointer of a container whose mutex
\* another thread holds.
GetIsUnsynchronizedWitness ==
    \E t, u \in Threads :
        /\ t # u
        /\ pc[t] = "get_ret" /\ pc[u] \in {"guarded", "locked"}
        /\ self_[u] = self_[t]
        /\ m_mtx[self_[t]]
        /\ ret[t] # Null /\ ret[t] = m_value[self_[t]]

\* Every step thread t can take.
Step(t) ==
    \/ \E c \in Containers : ArrowArg(t, c) \/ StarArg(t, c) \/ LockCall(t, c) \/ Get(t, c) \/ Destroy(t, c)
    \/ \E c \in Containers, fresh \in BOOLEAN, d \in Deleters : Construct(t, c, fresh, d)
    \/ \E dst, src \in Containers : MoveAssign(t, dst, src) \/ MoveConstruct(t, dst, src)
    \/ ProxyCtor(t) \/ ProxyUse(t) \/ ProxyDtor(t)
    \/ LockAcquire(t) \/ GetLocked(t) \/ Unlock(t) \/ GetDone(t)
    \/ ScopedLockFirst(t) \/ ScopedLockSecond(t) \/ ScopedLockBackOff(t)
    \/ MoveValue(t) \/ MoveUnlockThis(t) \/ MoveUnlockOther(t)

\* C14 as stated: a thread inside a member function has a step unless it is
\* acquiring the mutex in operator->, operator* or lock().
OnlyAccessBlocks ==
    \A t \in Threads : pc[t] \notin {"idle", "px_lock", "lk_wait"} => ENABLED Step(t)

\* C14 amended: a thread inside a member function has a step unless it is
\* acquiring a mutex in operator->, operator*, lock() or in the std::lock of a
\* move, and then that mutex is locked; get(), construction from a raw pointer
\* and destruction are steps that do not depend on any mutex.
OnlyLockAcquisitionBlocks ==
    \A t \in Threads :
        /\ pc[t] \notin {"idle", "px_lock", "lk_wait", "sl_lock"} => ENABLED Step(t)
        /\ (pc[t] \in {"px_lock", "lk_wait"} /\ ~ENABLED Step(t)) => m_mtx[self_[t]]
        /\ (pc[t] = "sl_lock" /\ ~ENABLED Step(t)) => m_mtx[first[t]]
        /\ (pc[t] = "idle" /\ quota[t] > 0)
            => \A c \in Containers :
                /\ life[c] = "live" => ENABLED Get(t, c)
                /\ life[c] = "none" => ENABLED Construct(t, c, FALSE, "default_delete")
                /\ (life[c] = "live" /\ \A u \in Threads : ~Using(u, c)) => ENABLED Destroy(t, c)

\* C14 witness: a move waits in std::lock for a mutex that another thread's
\* proxy or lock() holds.
MoveBlocksWitness ==
    \E t, u \in Threads :
        /\ t # u
        /\ pc[t] = "sl_lock" /\ pc[u] \in {"guarded", "locked"}
        /\ first[t] = self_[u]
        /\ m_mtx[first[t]]
        /\ ~ENABLED Step(t)

\* C19: the pointer a proxy exposes while it holds the mutex is not one a
\* deleter has already run on.
NoUseAfterCleanup ==
    \A t \in Threads :
        (InProxy(t) /\ m_ptr[t] # Null) => heap[m_ptr[t]] # "deleted"

\* C18: no two threads hold proxies (on the same or on different containers)
\* that expose the same object.
ExclusiveObjectAccess ==
    \A t, u \in Threads :
        (t # u /\ InProxy(t) /\ InProxy(u) /\ m_ptr[t] # Null) => m_ptr[t] # m_ptr[u]

\* A thread inside a = std::move(a).
InSelfMove(t) == InMove(t) /\ self_[t] = other[t]

\* C20: a thread inside a = std::move(a) stays inside it for ever, going round
\* std::lock (lock, failed try_lock, unlock) without reaching the transfer, and
\* none of its steps changes a managed pointer or runs a deleter. (try_lock on a
\* std::mutex the thread itself holds is undefined; it fails in the builds.)
SelfMoveNeverCompletes ==
    /\ [](\A t \in Threads : InSelfMove(t) => pc[t] \in {"sl_lock", "sl_try"})
    /\ [][\A t \in Threads :
            InSelfMove(t)
            => /\ InSelfMove(t)'
               /\ self_'[t] = self_[t]
               /\ pc'[t] # pc[t] => (m_value' = m_value /\ heap' = heap /\ cleaned' = cleaned)]_vars

\* C20 witness: the thread holds a's mutex after the blocking lock() and is
\* about to try_lock the same mutex.
SelfMoveWitness ==
    \E t \in Threads :
        /\ pc[t] = "sl_try"
        /\ self_[t] = "A" /\ other[t] = "A" /\ first[t] = "A"
        /\ m_mtx["A"]
        /\ ENABLED ScopedLockBackOff(t)
        /\ ~ENABLED ScopedLockSecond(t)

\* C15: a constructor called with a non-null pointer P leaves the container
\* managing exactly P, one called with null leaves it empty, and both leave
\* the mutex free; while nothing is moved or destroyed the managed pointer
\* stays what the constructor stored, and get() between lock() and unlock(),
\* like a bare get(), returns it.
ConstructThenGet ==
    /\ [][\A c \in Containers :
            (life[c] = "none" /\ life'[c] = "live")
            => /\ ~m_mtx'[c]
               /\ heap' = heap => m_value'[c] = Null
               /\ heap' # heap
                  => /\ m_value'[c] # Null
                     /\ heap[m_value'[c]] = "free"
                     /\ heap' = [heap EXCEPT ![m_value'[c]] = "alive"]]_vars
    /\ [][\A c \in Containers :
            (life[c] = "live" /\ life'[c] = "live") => m_value'[c] = m_value[c]]_vars
    /\ [](\A t \in Threads :
            pc[t] \in {"got", "get_ret"} => ret[t] = m_value[self_[t]])

\* C15 witness: one thread is between get() and unlock() on C, which was
\* constructed from a new object, and holds that object's address, while B,
\* destroyed and constructed again from null, is empty with its mutex free.
ConstructThenGetWitness ==
    \E t \in Threads :
        /\ pc[t] = "got"
        /\ self_[t] = "C"
        /\ ret[t] \notin {Null, 1, 2}
        /\ ret[t] = m_value["C"]
        /\ heap[ret[t]] = "alive"
        /\ m_mtx["C"]
        /\ life["B"] = "live" /\ m_value["B"] = Null /\ ~m_mtx["B"] /\ cleaned[2] = 1

\* The thread called lock() on a mutex it holds itself.
SelfBlocked(t) == pc[t] \in {"lk_relock", "px_relock"}

\* C13: a thread that calls lock() on a container whose mutex it already holds
\* (by an earlier lock() or by a live proxy) cannot acquire it, stays in that
\* lock() for ever, and the mutex stays locked, held by that thread alone.
RelockBlocksForever ==
    /\ [](\A t \in Threads :
            SelfBlocked(t)
            => /\ m_mtx[self_[t]]
               /\ Holders(self_[t]) = {t}
               /\ ~ENABLED LockAcquire(t))
    /\ [][\A t \in Threads :
            SelfBlocked(t)
            => /\ SelfBlocked(t)'
               /\ self_'[t] = self_[t]
               /\ m_mtx'[self_[t]]]_vars

\* C13 witness: one thread called lock() twice and waits for itself while the
\* other waits for the same mutex in its own lock().
RelockBlocksWitness ==
    \E t, u \in Threads :
        /\ t # u
        /\ pc[t] = "lk_relock" /\ self_[t] = "A"
        /\ pc[u] = "lk_wait" /\ self_[u] = "A"
        /\ m_mtx["A"]

\* C17: when every thread performs finitely many access expressions and
\* lock() ... unlock() sequences on one container, and every thread that can
\* step eventually does, every thread finishes; until then some thread can
\* step (no deadlock), and a thread waiting for a free mutex can take it.
AccessTerminates ==
    /\ <>(\A t \in Threads : Done(t))
    /\ []((\A t \in Threads : Done(t)) \/ ENABLED NextAccess)
    /\ [](\A t \in Threads :
            (WaitsFor(t, "A") /\ ~m_mtx["A"]) => ENABLED AccessStep(t))

\* C17 witness: in the last round one thread waits in lock() while the other
\* is inside its access expression and holds the mutex.
AccessTerminatesWitness ==
    \E t, u \in Threads :
        /\ t # u
        /\ pc[t] = "lk_wait" /\ quota[t] = 0
        /\ pc[u] = "used" /\ quota[u] = 0
        /\ self_[t] = "A" /\ self_[u] = "A"
        /\ m_mtx["A"]

\* The number of the thread's proxies that own the mutex.
NOwners(t) == Cardinality({i \in 1..Len(guards[t]) : guards[t][i]})

\* C11: of a thread's proxies at most one owns the mutex, and while one does
\* the thread is the mutex's holder; moving a proxy hands the source's
\* ownership to the new proxy, leaves the source owning nothing and does not
\* touch the mutex; destroying a proxy that owns nothing leaves the mutex
\* alone, destroying the owner releases it; and the mutex is released only by
\* the destruction of an owner, so once per acquisition.
GuardMoveTransfers ==
    /\ [](\A t \in Threads :
            /\ NOwners(t) <= 1
            /\ NOwners(t) = 1 => (m_mtx[self_[t]] /\ Holders(self_[t]) = {t}))
    /\ [][\A t \in Threads :
            (Len(guards[t]) > 0 /\ Len(guards'[t]) > Len(guards[t]))
            => /\ m_mtx' = m_mtx
               /\ \E i \in 1..Len(guards[t]) :
                    /\ guards'[t][Len(guards'[t])] = guards[t][i]
                    /\ ~guards'[t][i]
                    /\ \A j \in 1..Len(guards[t]) : j # i => guards'[t][j] = guards[t][j]]_vars
    /\ [][\A t \in Threads :
            Len(guards'[t]) < Len(guards[t])
            => IF NOwners(t)' = NOwners(t)
               THEN m_mtx' = m_mtx
               ELSE m_mtx[self_[t]] /\ ~m_mtx'[self_[t]]]_vars
    /\ [][\A c \in Containers :
            (m_mtx[c] /\ ~m_mtx'[c])
            => \E t \in Threads :
                  /\ self_[t] = c
                  /\ NOwners(t) = 1
                  /\ NOwners(t)' = 0
                  /\ Len(guards'[t]) < Len(guards[t])]_vars

\* C11 witness: a thread's proxy was moved, a moved-from proxy is still alive
\* beside the owner, the mutex is held by that thread and another thread waits
\* for it.
GuardMoveWitness ==
    \E t, u \in Threads :
        /\ t # u
        /\ pc[t] = "used"
        /\ guards[t] = <<FALSE, TRUE>>
        /\ m_mtx["A"] /\ Holders("A") = {t}
        /\ pc[u] = "px_lock"

\* C16: the container built by make_unique<T[]>(n) manages a non-null pointer
\* to elements 0..n-1 (none when n = 0, and then no indexed access is
\* possible); an element is either not yet written or holds the value written
\* at its own index; an element changes only in an indexed write to that index
\* by the thread that holds the mutex; and reading a written index i gives the
\* value written at i.
ArrayReadback ==
    /\ [](life["C"] = "live"
            => /\ m_value["C"] # Null
               /\ \E n \in 0..MaxLen : DOMAIN elems[m_value["C"]] = 0..(n - 1)
               /\ DOMAIN elems[m_value["C"]] = {}
                  => \A t \in Threads, i \in 0..(MaxLen - 1) :
                        ~ENABLED IndexWrite(t, i) /\ ~ENABLED IndexRead(t, i))
    /\ [](\A o \in Objects : \A i \in DOMAIN elems[o] :
            elems[o][i] = Values \/ elems[o][i] = {Value(i)})
    /\ [](\A t \in Threads :
            (pc[t] = "idx_rd" /\ elems[m_ptr[t]][index[t]] # Values)
            => reg[t] = Value(index[t]))
    /\ [][\A o \in Objects : \A j \in DOMAIN elems[o] :
            /\ j \in DOMAIN elems'[o]
            /\ elems'[o][j] # elems[o][j]
               => \E t \in Threads :
                     /\ pc[t] = "guarded" /\ pc'[t] = "idx_wr"
                     /\ m_ptr[t] = o
                     /\ index'[t] = j
                     /\ Holders(self_[t]) = {t}]_vars

\* C16 witness: every element of an array of MaxLen elements was written and a
\* thread has read the last one back.
ArrayReadbackWitness ==
    \E t \in Threads :
        /\ pc[t] = "idx_rd"
        /\ m_ptr[t] = m_value["C"]
        /\ DOMAIN elems[m_ptr[t]] = 0..(MaxLen - 1)
        /\ \A i \in 0..(MaxLen - 1) : elems[m_ptr[t]][i] = {Value(i)}
        /\ index[t] = MaxLen - 1
        /\ reg[t] = Value(MaxLen - 1)
====
